---------------------------- MODULE Spec2Model ----------------------------
(***************************************************************************)
(* IdentityStorageManager (backend/src/IdentityStorageManager.ts): the     *)
(* record lifecycle, the five query methods and the fuzzy-search pattern.  *)
(*                                                                         *)
(* Text that is searched or matched (search strings, certificate field     *)
(* values, searchableAttributes, regex sources) is a sequence of           *)
(* one-character strings; keys (txid, subject, certifier, type, serial     *)
(* number, field names) are plain strings.                                 *)
(***************************************************************************)
EXTENDS Integers, Sequences, FiniteSets

VARIABLES
  records,     \* the identityRecords collection, in insertion (natural) order
  now,         \* the clock read by new Date()
  lastWrite,   \* history: the storeRecord call that completed last, NoWrite
               \* once a deleteRecord call has completed after it
  reply,       \* the outcome of the query call the caller is holding, or NoReply
  lastDelete,  \* history: per reference, whether the deleteRecord call that
               \* last removed a record of it left none ("all") or left
               \* others ("some"); NoDelete once it is stored again
  fz           \* the getFuzzyRegex harness: input, target, pattern, outcome

vars == <<records, now, lastWrite, reply, lastDelete, fz>>

----------------------------------------------------------------------------
(* Optional values: JavaScript's undefined against a defined value.        *)

Undefined == [defined |-> FALSE]

Def(v) == [defined |-> TRUE, value |-> v]

----------------------------------------------------------------------------
(* Strings and arrays.                                                     *)

\* String.prototype.split(''): one one-character string per code unit.
Split(s) == [i \in 1..Len(s) |-> <<s[i]>>]

\* Array.prototype.join(sep): the elements with sep between neighbours.
RECURSIVE Join(_, _)
Join(arr, sep) ==
  IF arr = <<>> THEN <<>>
  ELSE IF Len(arr) = 1 THEN arr[1]
  ELSE arr[1] \o sep \o Join(Tail(arr), sep)

\* The character class of line 55: . * + ? ^ $ { } ( ) | [ ] \
Metachars ==
  {".", "*", "+", "?", "^", "$", "{", "}", "(", ")", "|", "[", "]", "\\"}

\* input.replace(/[.*+?^${}()|[\]\\]/g, '\\$&'): a backslash before each
\* metacharacter.
EscapeRegex(input) ==
  Join([i \in 1..Len(input) |->
          IF input[i] \in Metachars THEN <<"\\", input[i]>> ELSE <<input[i]>>],
       <<>>)

\* The source handed to new RegExp: the escaped input, split into single
\* characters, joined by ".*".
FuzzySource(input) == Join(Split(EscapeRegex(input)), <<".", "*">>)

----------------------------------------------------------------------------
(* new RegExp(source, 'i') and its matching, for the sources FuzzySource   *)
(* produces over the modelled characters: literals, ".", "\c", the         *)
(* quantifiers * + ? (with a lazy "?" suffix), "|" and "^".                *)
(* Groups, character classes and "$" (whose meaning before a final line    *)
(* break differs between engines) are not modelled: ( ) [ and $ are kept   *)
(* out of every enumerated search string.  { } and ] are literals for a    *)
(* pattern without the u flag when no braced quantifier is formed, which   *)
(* a "{" followed by "." or by the end never does.                         *)

UpperCase ==
  <<"A", "B", "C", "D", "E", "F", "G", "H", "I", "J", "K", "L", "M",
    "N", "O", "P", "Q", "R", "S", "T", "U", "V", "W", "X", "Y", "Z">>

LowerCase ==
  <<"a", "b", "c", "d", "e", "f", "g", "h", "i", "j", "k", "l", "m",
    "n", "o", "p", "q", "r", "s", "t", "u", "v", "w", "x", "y", "z">>

\* The i flag: letters are compared by their case-folded form.
Canonicalize(c) ==
  IF \E k \in 1..Len(UpperCase) : UpperCase[k] = c
  THEN LowerCase[CHOOSE k \in 1..Len(UpperCase) : UpperCase[k] = c]
  ELSE c

\* "." matches any character but a line terminator (no s flag is given).
\* The line feed is the one that both new RegExp and the store's regex
\* engine exclude.
LineTerminators == {"\n"}

Term(kind, ch) == [kind |-> kind, ch |-> ch, q |-> "1"]

SyntaxError == [ok |-> FALSE, alts |-> <<>>]

\* st: "start" (nothing to repeat), "atom" (the last term can take a
\* quantifier), "quant" (the last term was just quantified).
RECURSIVE RegExpParse(_, _, _, _, _)
RegExpParse(src, i, alts, cur, st) ==
  IF i > Len(src) THEN [ok |-> TRUE, alts |-> Append(alts, cur)]
  ELSE LET c == src[i] IN
    CASE c = "\\" ->
           IF i = Len(src) THEN SyntaxError   \* "\ at end of pattern"
           ELSE RegExpParse(src, i + 2, alts,
                            Append(cur, Term("char", src[i + 1])), "atom")
      [] c = "." ->
           RegExpParse(src, i + 1, alts, Append(cur, Term("any", c)), "atom")
      [] c \in {"*", "+", "?"} ->
           IF st = "atom"
           THEN RegExpParse(src, i + 1, alts,
                            [cur EXCEPT ![Len(cur)].q = c], "quant")
           ELSE IF st = "quant" /\ c = "?"
           THEN RegExpParse(src, i + 1, alts, cur, "start")   \* lazy
           ELSE SyntaxError                   \* "Nothing to repeat"
      [] c = "|" ->
           RegExpParse(src, i + 1, Append(alts, cur), <<>>, "start")
      [] c = "^" ->
           RegExpParse(src, i + 1, alts, Append(cur, Term("bol", c)), "start")
      [] c \in {"(", ")", "[", "$"} ->
           SyntaxError                        \* not modelled, never enumerated
      [] OTHER ->
           RegExpParse(src, i + 1, alts, Append(cur, Term("char", c)), "atom")

\* new RegExp(source, 'i'): the alternatives of the pattern, or a SyntaxError.
RegExp(source) == RegExpParse(source, 1, <<>>, <<>>, "start")

AtomMatches(t, ch) ==
  CASE t.kind = "char" -> Canonicalize(t.ch) = Canonicalize(ch)
    [] t.kind = "any" -> ch \notin LineTerminators
    [] OTHER -> FALSE

\* Whether terms k.. of one alternative match target from position p on.
RECURSIVE MatchTerms(_, _, _, _)
MatchTerms(terms, k, target, p) ==
  IF k > Len(terms) THEN TRUE
  ELSE LET t == terms[k] IN
    CASE t.kind = "bol" -> p = 1 /\ MatchTerms(terms, k + 1, target, p)
      [] t.q = "1" ->
           /\ p <= Len(target)
           /\ AtomMatches(t, target[p])
           /\ MatchTerms(terms, k + 1, target, p + 1)
      [] t.q = "?" ->
           \/ MatchTerms(terms, k + 1, target, p)
           \/ /\ p <= Len(target)
              /\ AtomMatches(t, target[p])
              /\ MatchTerms(terms, k + 1, target, p + 1)
      [] OTHER ->                             \* "*" and "+"
           \E e \in (IF t.q = "+" THEN p + 1 ELSE p)..(Len(target) + 1) :
             /\ \A j \in p..(e - 1) : AtomMatches(t, target[j])
             /\ MatchTerms(terms, k + 1, target, e)

\* An unanchored search, as RegExp.prototype.test and the store's regex
\* clause do it: some alternative matches from some start position.
RegExpTest(re, target) ==
  \E a \in 1..Len(re.alts) : \E p \in 1..(Len(target) + 1) :
    MatchTerms(re.alts[a], 1, target, p)

\* getFuzzyRegex(input): the compiled pattern, or the SyntaxError that
\* new RegExp throws.
getFuzzyRegex(input) == RegExp(FuzzySource(input))

----------------------------------------------------------------------------
(* Documents of the collection and the store's query language.             *)

\* Mutant of SearchableAttributes: the filter forgets the icon field.
SearchableAttributesKeepIcon(fields) ==
  LET kept == SelectSeq(fields, LAMBDA e : e.key # "profilePhoto")
      values == [i \in 1..Len(kept) |-> kept[i].value]
  IN Join(values, <<" ">>)

\* Object.entries(certificate.fields).filter(...).map(...).join(' ')
SearchableAttributes(fields) ==
  LET kept == SelectSeq(fields,
                        LAMBDA e : e.key # "profilePhoto" /\ e.key # "icon")
      values == [i \in 1..Len(kept) |-> kept[i].value]
  IN Join(values, <<" ">>)

\* The document storeRecord passes to insertOne.
NewRecord(txid, outputIndex, certificate, createdAt) ==
  [txid |-> txid,
   outputIndex |-> outputIndex,
   certificate |-> certificate,
   createdAt |-> createdAt,
   searchableAttributes |-> SearchableAttributes(certificate.fields)]

\* The value of a dotted path in a document, Undefined when the path is
\* absent.
GetPath(doc, path) ==
  IF path = <<"searchableAttributes">> THEN Def(doc.searchableAttributes)
  ELSE IF Len(path) = 2 THEN Def(doc.certificate[path[2]])
  ELSE LET fields == doc.certificate.fields
           hit == {i \in 1..Len(fields) : fields[i].key = path[3]}
       IN IF hit = {} THEN Undefined
          ELSE Def(fields[CHOOSE i \in hit : TRUE].value)

EqClause(path, value) == [op |-> "eq", path |-> path, value |-> value]

InClause(path, values) == [op |-> "in", path |-> path, values |-> values]

RegexClause(path, re) == [op |-> "regex", path |-> path, re |-> re]

\* Whether a document satisfies one clause of a filter.  { $in: undefined }
\* reaches here only when the driver drops undefined values, and then
\* matches no document.
ClauseMatches(doc, c) ==
  LET v == GetPath(doc, c.path) IN
  /\ v.defined
  /\ CASE c.op = "eq" -> v.value = c.value
       [] c.op = "in" ->
            /\ c.values.defined
            /\ \E i \in 1..Len(c.values.value) : c.values.value[i] = v.value
       [] OTHER -> RegExpTest(c.re, v.value)

Matches(doc, query) == \A k \in 1..Len(query) : ClauseMatches(doc, query[k])

UTXOReference(txid, outputIndex) == [txid |-> txid, outputIndex |-> outputIndex]

Returned(result) == [status |-> "ok", result |-> result]

Thrown(error) == [status |-> error, result |-> <<>>]

\* Mutant of findRecordWithQuery: findOne in place of find, the first hit
\* only.
findFirstWithQuery(recs, query, ignoreUndefined) ==
  LET hits == SelectSeq(recs, LAMBDA doc : Matches(doc, query))
  IN Returned([i \in 1..(IF Len(hits) = 0 THEN 0 ELSE 1) |->
                 UTXOReference(hits[i].txid, hits[i].outputIndex)])

\* findRecordWithQuery: find(query).project({txid, outputIndex}).toArray(),
\* each hit mapped to a UTXOReference.  ignoreUndefined is the BSON option
\* of the Db handle the constructor was given: without it the driver sends
\* { $in: undefined } as { $in: null }, which the store rejects.
findRecordWithQuery(recs, query, ignoreUndefined) ==
  IF /\ ~ignoreUndefined
     /\ \E k \in 1..Len(query) :
          query[k].op = "in" /\ ~query[k].values.defined
  THEN Thrown("storeError")
  ELSE LET hits == SelectSeq(recs, LAMBDA doc : Matches(doc, query))
       IN Returned([i \in 1..Len(hits) |->
                      UTXOReference(hits[i].txid, hits[i].outputIndex)])

----------------------------------------------------------------------------
(* The query methods, as functions of the collection and the arguments.    *)
(* Only findByAttribute can put an undefined value into a clause, so only  *)
(* its outcome depends on ignoreUndefined.                                 *)

CertifierPath == <<"certificate", "certifier">>

HasKey(attrs, key) == \E i \in 1..Len(attrs) : attrs[i].key = key

ValueOf(attrs, key) ==
  attrs[CHOOSE i \in 1..Len(attrs) : attrs[i].key = key].value

\* Mutant of AttributeClauses: the any key gets no precedence, every key is
\* searched as a certificate field.
AttributeClausesPerField(attrs) ==
  [i \in 1..Len(attrs) |->
     RegexClause(<<"certificate", "fields", attrs[i].key>>,
                 getFuzzyRegex(attrs[i].value))]

\* The clauses findByAttribute pushes after the certifier clause.
AttributeClauses(attrs) ==
  IF HasKey(attrs, "any")
  THEN <<RegexClause(<<"searchableAttributes">>,
                     getFuzzyRegex(ValueOf(attrs, "any")))>>
  ELSE [i \in 1..Len(attrs) |->
          RegexClause(<<"certificate", "fields", attrs[i].key>>,
                      getFuzzyRegex(attrs[i].value))]

findByAttribute(recs, attributes, certifiers, ignoreUndefined) ==
  IF ~attributes.defined \/ Len(attributes.value) = 0 THEN Returned(<<>>)
  ELSE LET clauses == AttributeClauses(attributes.value) IN
       IF \E k \in 1..Len(clauses) : ~clauses[k].re.ok
       THEN Thrown("SyntaxError")
       ELSE findRecordWithQuery(
              recs, <<InClause(CertifierPath, certifiers)>> \o clauses,
              ignoreUndefined)

findByIdentityKey(recs, identityKey, certifiers) ==
  IF ~identityKey.defined THEN Returned(<<>>)
  ELSE LET base == <<EqClause(<<"certificate", "subject">>, identityKey.value)>>
           query == IF certifiers.defined /\ Len(certifiers.value) > 0
                    THEN Append(base, InClause(CertifierPath, certifiers))
                    ELSE base
       IN findRecordWithQuery(recs, query, TRUE)

findByCertifier(recs, certifiers) ==
  IF ~certifiers.defined \/ Len(certifiers.value) = 0 THEN Returned(<<>>)
  ELSE findRecordWithQuery(recs, <<InClause(CertifierPath, certifiers)>>, TRUE)

findByCertificateType(recs, certificateTypes, identityKey, certifiers) ==
  IF \/ ~certificateTypes.defined \/ Len(certificateTypes.value) = 0
     \/ ~identityKey.defined
     \/ ~certifiers.defined \/ Len(certifiers.value) = 0
  THEN Returned(<<>>)
  ELSE findRecordWithQuery(
         recs,
         <<EqClause(<<"certificate", "subject">>, identityKey.value),
           InClause(CertifierPath, certifiers),
           InClause(<<"certificate", "type">>, certificateTypes)>>,
         TRUE)

findByCertificateSerialNumber(recs, serialNumber) ==
  IF ~serialNumber.defined \/ serialNumber.value = "" THEN Returned(<<>>)
  ELSE findRecordWithQuery(
         recs, <<EqClause(<<"certificate", "serialNumber">>, serialNumber.value)>>,
         TRUE)

----------------------------------------------------------------------------
(* Bounds and the inputs the calls are drawn from.                         *)

MaxTime == 2          \* storeRecord calls in one behaviour

MaxInputLen == 2      \* longest enumerated search string

MaxTargetLen == 3     \* longest enumerated target

StringsUpTo(chars, n) == UNION {[1..k -> chars] : k \in 0..n}

Txids == {"t1", "t2"}

OutputIndexes == {0, 1}

\* Every reference a call can name, and those storeRecord is called with.
Refs == {UTXOReference(t, o) : t \in Txids, o \in OutputIndexes}

StoredRefs ==
  {UTXOReference("t1", 0), UTXOReference("t1", 1), UTXOReference("t2", 0)}

AliceSmith == <<"A", "l", "i", "c", "e", " ", "S", "m", "i", "t", "h">>

Field(key, value) == [key |-> key, value |-> value]

Certificate(subject, certifier, type, serialNumber, fields) ==
  [subject |-> subject, certifier |-> certifier, type |-> type,
   serialNumber |-> serialNumber, fields |-> fields]

Certificates ==
  {Certificate("pub1", "cert1", "typeA", "sn1",
               <<Field("name", AliceSmith)>>),
   Certificate("", "cert2", "typeB", "sn2",
               <<Field("profilePhoto", <<"a", "b">>),
                 Field("name", <<"a", "*", "b">>),
                 Field("icon", <<"b">>),
                 Field("email", <<"a", "\n", "b">>)>>),
   Certificate("pub1", "cert3", "typeC", "sn1", <<>>)}

CertifierArgs ==
  {Undefined, Def(<<>>), Def(<<"cert1">>), Def(<<"cert2", "cert3">>)}

IdentityKeyArgs == {Undefined, Def(""), Def("pub1")}

CertificateTypeArgs ==
  {Undefined, Def(<<>>), Def(<<"typeA">>), Def(<<"typeB", "typeC">>)}

SerialNumberArgs == {Undefined, Def(""), Def("sn1")}

SearchStrings ==
  {<<"a", "l", "c", "S", "m">>, <<"a", "b">>, <<"a", ".", "b">>, <<"*">>, <<>>}

AttributeArgs ==
  {Undefined, Def(<<>>)}
    \cup {Def(<<Field("any", s)>>) : s \in SearchStrings}
    \cup {Def(<<Field("name", s)>>) : s \in SearchStrings}
    \cup {Def(<<Field("name", <<"*">>), Field("any", <<"a", "b">>)>>),
          Def(<<Field("any", <<"a", "b">>), Field("email", <<"b", "a">>)>>),
          Def(<<Field("name", <<"a", "b">>), Field("email", <<"a", "b">>)>>),
          Def(<<Field("name", <<"a", "b">>), Field("email", <<"b", "a">>)>>)}

\* The characters of the enumerated search strings and targets of the
\* getFuzzyRegex harness.
SearchChars == {"a", "b", "A", ".", "*", "+", "?", "^", "|", "\\"}

TargetChars == {"a", "b", "A", ".", "\n"}

FuzzyInputs ==
  StringsUpTo(SearchChars, MaxInputLen)
    \cup {<<"a", "c", "e">>, <<"a", ".", "*", "b">>}

FuzzyTargets ==
  StringsUpTo(TargetChars, MaxTargetLen)
    \cup {<<"a", "b", "c", "d", "e">>, <<"a", "e", "c">>, <<"a", "\n", "b">>,
          <<"a", "x", "b">>}

----------------------------------------------------------------------------
(* The state machine: one caller issuing calls and taking their replies.   *)
(* Each call is atomic at the store.  The clock advances by one tick with  *)
(* every storeRecord call, which bounds the calls of one behaviour.        *)

NoReply == [op |-> "none"]

NoWrite == [op |-> "none"]

NoDelete == "none"

FuzzyIdle ==
  [phase |-> "idle", input |-> <<>>, target |-> <<>>, source |-> <<>>,
   status |-> "none", matched |-> FALSE]

Init ==
  /\ records = <<>>
  /\ now = 0
  /\ lastWrite = NoWrite
  /\ reply = NoReply
  /\ lastDelete = [r \in Refs |-> NoDelete]
  /\ fz = FuzzyIdle

RefMatches(doc, txid, outputIndex) ==
  doc.txid = txid /\ doc.outputIndex = outputIndex

CountRef(recs, txid, outputIndex) ==
  Cardinality({i \in 1..Len(recs) : RefMatches(recs[i], txid, outputIndex)})

RemoveAt(seq, i) == SubSeq(seq, 1, i - 1) \o SubSeq(seq, i + 1, Len(seq))

\* insertOne: the document is appended to the collection.
InsertOne(recs, doc) == Append(recs, doc)

\* Mutant of DeleteOne: the filter names the txid alone.
DeleteOneByTxid(recs, txid, outputIndex) ==
  LET hit == {i \in 1..Len(recs) : recs[i].txid = txid}
  IN IF hit = {} THEN {recs} ELSE {RemoveAt(recs, i) : i \in hit}

\* Mutant of DeleteOne: deleteMany, every matching document goes.
DeleteAllMatching(recs, txid, outputIndex) ==
  {SelectSeq(recs, LAMBDA doc : ~RefMatches(doc, txid, outputIndex))}

\* deleteOne({ txid, outputIndex }): the collections the call may leave,
\* one matching document removed, or the collection as it was when none
\* matches.  Which of several matching documents goes is the store's choice.
DeleteOne(recs, txid, outputIndex) ==
  LET hit == {i \in 1..Len(recs) : RefMatches(recs[i], txid, outputIndex)}
  IN IF hit = {} THEN {recs} ELSE {RemoveAt(recs, i) : i \in hit}

StoreRecord(txid, outputIndex, certificate) ==
  /\ reply = NoReply
  /\ now < MaxTime
  /\ records' = InsertOne(records, NewRecord(txid, outputIndex, certificate, now))
  /\ now' = now + 1
  /\ lastWrite' = [op |-> "storeRecord", txid |-> txid,
                   outputIndex |-> outputIndex, certificate |-> certificate]
  /\ lastDelete' =
       [lastDelete EXCEPT ![UTXOReference(txid, outputIndex)] = NoDelete]
  /\ UNCHANGED <<reply, fz>>

DeleteRecord(txid, outputIndex) ==
  /\ reply = NoReply
  /\ records' \in DeleteOne(records, txid, outputIndex)
  /\ lastWrite' = NoWrite
  /\ lastDelete' =
       [lastDelete EXCEPT ![UTXOReference(txid, outputIndex)] =
          CASE CountRef(records, txid, outputIndex) = 0 -> @
            [] CountRef(records, txid, outputIndex) = 1 -> "all"
            [] OTHER -> "some"]
  /\ UNCHANGED <<now, reply, fz>>

Reply(op, args, outcome) ==
  [op |-> op, args |-> args, status |-> outcome.status,
   result |-> outcome.result]

FindByAttribute(attributes, certifiers, ignoreUndefined) ==
  /\ reply = NoReply
  /\ reply' = Reply("findByAttribute",
                    [attributes |-> attributes, certifiers |-> certifiers],
                    findByAttribute(records, attributes, certifiers,
                                    ignoreUndefined))
  /\ UNCHANGED <<records, now, lastWrite, lastDelete, fz>>

FindByIdentityKey(identityKey, certifiers) ==
  /\ reply = NoReply
  /\ reply' = Reply("findByIdentityKey",
                    [identityKey |-> identityKey, certifiers |-> certifiers],
                    findByIdentityKey(records, identityKey, certifiers))
  /\ UNCHANGED <<records, now, lastWrite, lastDelete, fz>>

FindByCertifier(certifiers) ==
  /\ reply = NoReply
  /\ reply' = Reply("findByCertifier", [certifiers |-> certifiers],
                    findByCertifier(records, certifiers))
  /\ UNCHANGED <<records, now, lastWrite, lastDelete, fz>>

FindByCertificateType(certificateTypes, identityKey, certifiers) ==
  /\ reply = NoReply
  /\ reply' = Reply("findByCertificateType",
                    [certificateTypes |-> certificateTypes,
                     identityKey |-> identityKey, certifiers |-> certifiers],
                    findByCertificateType(records, certificateTypes,
                                          identityKey, certifiers))
  /\ UNCHANGED <<records, now, lastWrite, lastDelete, fz>>

FindByCertificateSerialNumber(serialNumber) ==
  /\ reply = NoReply
  /\ reply' = Reply("findByCertificateSerialNumber",
                    [serialNumber |-> serialNumber],
                    findByCertificateSerialNumber(records, serialNumber))
  /\ UNCHANGED <<records, now, lastWrite, lastDelete, fz>>

\* The caller takes the outcome of its query and is free to call again.
TakeReply ==
  /\ reply # NoReply
  /\ reply' = NoReply
  /\ UNCHANGED <<records, now, lastWrite, lastDelete, fz>>

Next ==
  \/ \E r \in StoredRefs, c \in Certificates :
       StoreRecord(r.txid, r.outputIndex, c)
  \/ \E t \in Txids, o \in OutputIndexes : DeleteRecord(t, o)
  \/ \E a \in AttributeArgs, c \in CertifierArgs, iu \in BOOLEAN :
       FindByAttribute(a, c, iu)
  \/ \E k \in IdentityKeyArgs, c \in CertifierArgs : FindByIdentityKey(k, c)
  \/ \E c \in CertifierArgs : FindByCertifier(c)
  \/ \E ty \in CertificateTypeArgs, k \in IdentityKeyArgs, c \in CertifierArgs :
       FindByCertificateType(ty, k, c)
  \/ \E sn \in SerialNumberArgs : FindByCertificateSerialNumber(sn)
  \/ TakeReply

Spec == Init /\ [][Next]_vars

----------------------------------------------------------------------------
(* getFuzzyRegex on its own: a search string and a target are drawn, the   *)
(* pattern is built and, when it compiles, tested against the target.      *)

FuzzyInit ==
  /\ records = <<>>
  /\ now = 0
  /\ lastWrite = NoWrite
  /\ reply = NoReply
  /\ lastDelete = [r \in Refs |-> NoDelete]
  /\ \E s \in FuzzyInputs, t \in FuzzyTargets :
       fz = [FuzzyIdle EXCEPT !.phase = "input", !.input = s, !.target = t]

BuildPattern ==
  /\ fz.phase = "input"
  /\ fz' = [fz EXCEPT !.phase = "built",
                      !.source = FuzzySource(fz.input),
                      !.status = IF getFuzzyRegex(fz.input).ok
                                 THEN "ok" ELSE "SyntaxError"]
  /\ UNCHANGED <<records, now, lastWrite, reply, lastDelete>>

TestPattern ==
  /\ fz.phase = "built"
  /\ fz.status = "ok"
  /\ fz' = [fz EXCEPT !.phase = "tested",
                      !.matched = RegExpTest(getFuzzyRegex(fz.input), fz.target)]
  /\ UNCHANGED <<records, now, lastWrite, reply, lastDelete>>

FuzzyNext == BuildPattern \/ TestPattern

FuzzySpec == FuzzyInit /\ [][FuzzyNext]_vars

----------------------------------------------------------------------------
(* Vocabulary of the properties.                                            *)

Elements(seq) == {seq[i] : i \in 1..Len(seq)}

IsQuery(r) == r.op \notin {"none"}

RefOf(doc) == [txid |-> doc.txid, outputIndex |-> doc.outputIndex]

\* The characters of s, each taken literally, occur in target in order,
\* letters compared without regard to case.
RECURSIVE LiteralSubsequence(_, _)
LiteralSubsequence(s, target) ==
  IF s = <<>> THEN TRUE
  ELSE IF target = <<>> THEN FALSE
  ELSE IF Canonicalize(s[1]) = Canonicalize(target[1])
  THEN LiteralSubsequence(Tail(s), Tail(target))
  ELSE LiteralSubsequence(s, Tail(target))

IsLiteral(s) == \A i \in 1..Len(s) : s[i] \notin Metachars

\* The records of the store a certifier list admits.
CertifierAdmits(certifiers, doc) ==
  certifiers.defined /\ doc.certificate.certifier \in Elements(certifiers.value)

\* The values of fields in order, profilePhoto and icon left out, a single
\* space between neighbours.
RECURSIVE SpaceJoined(_, _)
SpaceJoined(fields, first) ==
  IF fields = <<>> THEN <<>>
  ELSE IF fields[1].key \in {"profilePhoto", "icon"}
  THEN SpaceJoined(Tail(fields), first)
  ELSE (IF first THEN <<>> ELSE <<" ">>) \o fields[1].value
         \o SpaceJoined(Tail(fields), FALSE)

----------------------------------------------------------------------------
(* C1 *)

\* The storeRecord call that completed last is followed, with no other
\* storeRecord or deleteRecord between, by findByIdentityKey on its subject
\* with its certifier among the certifiers.
C1_Case ==
  /\ lastWrite.op = "storeRecord"
  /\ reply.op = "findByIdentityKey"
  /\ reply.args.identityKey.defined
  /\ reply.args.identityKey.value = lastWrite.certificate.subject
  /\ reply.args.certifiers.defined
  /\ lastWrite.certificate.certifier \in Elements(reply.args.certifiers.value)

\* C1 as stated: after storeRecord(txid, outputIndex, certificate), an
\* immediately following findByIdentityKey(certificate.subject, certifiers)
\* with certificate.certifier in certifiers returns exactly one reference,
\* equal to (txid, outputIndex).
C1_ExactlyOne ==
  C1_Case =>
    /\ reply.status = "ok"
    /\ reply.result = <<UTXOReference(lastWrite.txid, lastWrite.outputIndex)>>

\* C1 amended: that call returns one reference per stored record with that
\* subject and a certifier in certifiers, (txid, outputIndex) among them, so
\* exactly one reference, equal to (txid, outputIndex), when the store holds
\* no other such record.
C1_ContainsStored ==
  C1_Case =>
    LET same == {i \in 1..Len(records) :
                   /\ records[i].certificate.subject = lastWrite.certificate.subject
                   /\ CertifierAdmits(reply.args.certifiers, records[i])}
        ref == UTXOReference(lastWrite.txid, lastWrite.outputIndex)
    IN /\ reply.status = "ok"
       /\ ref \in Elements(reply.result)
       /\ Len(reply.result) = Cardinality(same)
       /\ Cardinality(same) = 1 => reply.result = <<ref>>

C1_Witness ==
  /\ C1_Case
  /\ Len(records) = 2
  /\ reply.result = <<UTXOReference(lastWrite.txid, lastWrite.outputIndex)>>

----------------------------------------------------------------------------
(* C2 *)

\* C2 as stated: once deleteRecord(txid, outputIndex) has removed a stored
\* record, no query method returns (txid, outputIndex) until it is stored
\* again, whatever storeRecord and deleteRecord calls came before.
C2_NeverReturned ==
  IsQuery(reply) =>
    \A k \in 1..Len(reply.result) : lastDelete[reply.result[k]] = NoDelete

\* C2 amended: once deleteRecord(txid, outputIndex) has removed the only
\* record the store held with that reference, no query method returns
\* (txid, outputIndex) until it is stored again.
C2_NotReturnedAfterLastCopy ==
  IsQuery(reply) =>
    \A k \in 1..Len(reply.result) : lastDelete[reply.result[k]] # "all"

C2_Witness ==
  /\ IsQuery(reply)
  /\ Len(reply.result) > 0
  /\ \E r \in Refs : lastDelete[r] = "all"

----------------------------------------------------------------------------
(* C3 *)

\* C3: the pattern getFuzzyRegex builds from s matches a target exactly when
\* the characters of s, each taken literally, occur in the target in order,
\* case-insensitively, metacharacters included.  (Targets with a line break
\* are left to C6.)
C3_MetacharsLiteral ==
  (fz.phase = "tested" /\ \A i \in 1..Len(fz.target) :
                             fz.target[i] \notin LineTerminators) =>
    (fz.matched <=> LiteralSubsequence(fz.input, fz.target))

----------------------------------------------------------------------------
(* C4 *)

\* C4: no query method throws for a malformed input: a call returns a
\* sequence or fails because the store failed; building the predicate never
\* raises an error.
C4_NeverThrows == IsQuery(reply) => reply.status \in {"ok", "storeError"}

----------------------------------------------------------------------------
(* C5 *)

Absent(arg) == ~arg.defined \/ Len(arg.value) = 0

Blank(arg) == ~arg.defined \/ arg.value = ""

C5_EmptyInput ==
  CASE reply.op = "findByAttribute" -> Absent(reply.args.attributes)
    [] reply.op = "findByIdentityKey" -> Blank(reply.args.identityKey)
    [] reply.op = "findByCertifier" -> Absent(reply.args.certifiers)
    [] reply.op = "findByCertificateType" ->
         \/ Absent(reply.args.certificateTypes)
         \/ Blank(reply.args.identityKey)
         \/ Absent(reply.args.certifiers)
    [] reply.op = "findByCertificateSerialNumber" ->
         Blank(reply.args.serialNumber)
    [] OTHER -> FALSE

\* C5: every documented empty-input case returns the empty sequence,
\* whatever the store contains.
C5_EmptyInputEmptyResult ==
  C5_EmptyInput => reply.status = "ok" /\ reply.result = <<>>

----------------------------------------------------------------------------
(* C6 *)

\* C6: for a literal search string s (no metacharacters), the pattern
\* compiles and matches a target exactly when the characters of s occur in
\* it in order, in any letter case, whatever characters lie between; the
\* pattern from the empty string matches every target.
C6_LiteralSubsequence ==
  IsLiteral(fz.input) =>
    /\ fz.phase \in {"built", "tested"} => fz.status = "ok"
    /\ fz.phase = "tested" =>
         (fz.matched <=> LiteralSubsequence(fz.input, fz.target))

----------------------------------------------------------------------------
(* C7 *)

\* What deleteRecord(txid, outputIndex) may do to the collection: remove
\* one record whose txid and outputIndex both equal the arguments, or
\* nothing when there is none.
C7_Frame(txid, outputIndex) ==
  LET hit == {i \in 1..Len(records) :
                records[i].txid = txid /\ records[i].outputIndex = outputIndex}
  IN IF hit = {} THEN records' = records
     ELSE \E i \in hit :
            records' = [j \in 1..(Len(records) - 1) |->
                          IF j < i THEN records[j] ELSE records[j + 1]]

\* C7: deleteRecord(txid, outputIndex) removes at most one record, one whose
\* txid and outputIndex both equal the arguments, and leaves every other
\* record unchanged; when no record matches the store is unchanged.
C7_DeleteAtMostOne ==
  [][\A t \in Txids, o \in OutputIndexes :
       DeleteRecord(t, o) => C7_Frame(t, o)]_vars

C7_Witness ==
  /\ \E r \in Refs : lastDelete[r] = "some"
  /\ Len(records) = 1

----------------------------------------------------------------------------
(* C8 *)

C8_FieldValue(doc, key) ==
  LET fields == doc.certificate.fields
  IN {fields[i].value : i \in {j \in 1..Len(fields) : fields[j].key = key}}

\* C8: every reference findByAttribute returns belongs to a stored record
\* whose certifier is in certifiers (none when certifiers is undefined), and
\* a record with a matching certifier whose fields contain each per-field
\* search string as a fuzzy subsequence is returned.
C8_CertifierClause ==
  reply.op = "findByAttribute" =>
    LET attributes == reply.args.attributes
        certifiers == reply.args.certifiers
    IN /\ \A k \in 1..Len(reply.result) :
            \E i \in 1..Len(records) :
              /\ RefOf(records[i]) = reply.result[k]
              /\ CertifierAdmits(certifiers, records[i])
       /\ (reply.status = "ok" /\ ~certifiers.defined) => reply.result = <<>>
       /\ (~Absent(attributes) /\ ~HasKey(attributes.value, "any")) =>
            \A i \in 1..Len(records) :
              (/\ CertifierAdmits(certifiers, records[i])
               /\ \A j \in 1..Len(attributes.value) :
                    \E v \in C8_FieldValue(records[i], attributes.value[j].key) :
                      LiteralSubsequence(attributes.value[j].value, v))
                => /\ reply.status = "ok"
                   /\ RefOf(records[i]) \in Elements(reply.result)

----------------------------------------------------------------------------
(* C9 *)

C9_Case ==
  /\ reply.op = "findByAttribute"
  /\ reply.args.attributes.defined
  /\ HasKey(reply.args.attributes.value, "any")

----------------------------------------------------------------------------
(* C10 *)

\* C10: every record of the store has searchableAttributes equal to the
\* values of its certificate.fields, in field order, joined by single
\* spaces, profilePhoto and icon left out; and no step changes a record
\* that is in the store: the store after a step is the store before it,
\* with one record appended or one record removed at most.
C10_DerivedAndFrozen ==
  [][/\ \A i \in 1..Len(records') :
          records'[i].searchableAttributes =
            SpaceJoined(records'[i].certificate.fields, TRUE)
     /\ \/ records' = records
        \/ /\ Len(records') = Len(records) + 1
           /\ SubSeq(records', 1, Len(records)) = records
        \/ /\ Len(records') = Len(records) - 1
           /\ \E i \in 1..Len(records) :
                records' = [j \in 1..(Len(records) - 1) |->
                              IF j < i THEN records[j] ELSE records[j + 1]]]_vars

C10_Witness ==
  \E i \in 1..Len(records) :
    /\ \E j \in 1..Len(records[i].certificate.fields) :
         records[i].certificate.fields[j].key = "icon"
    /\ \E k \in 1..Len(records[i].searchableAttributes) :
         records[i].searchableAttributes[k] = " "
    /\ records[i].createdAt < now - 1

============================================================================
